---- MODULE Spec2Model ----
(***************************************************************************)
(* Model of the Transfer serializer of zinc-sdk-go (src/main.go).          *)
(*                                                                         *)
(* Representation                                                          *)
(*   string   a sequence of one-character strings, <<"0","x","3","6">>     *)
(*   byte     an integer in 0..255                                         *)
(*   []byte   a sequence of bytes; the nil slice is <<>>                   *)
(*   uint64   four 16-bit limbs, most significant first: <<l1,l2,l3,l4>>   *)
(*            stands for l1*2^48 + l2*2^32 + l3*2^16 + l4                  *)
(*   int64    (time.Duration) the same four limbs, two's complement: the   *)
(*            value is negative exactly when l1 >= 2^15                    *)
(*   (T, error) results are records [status, val, err]: status "ok" with   *)
(*            the value, "error" with the nil value and the message, or    *)
(*            "panic" when the Go runtime aborts the call                  *)
(***************************************************************************)
EXTENDS Integers, Sequences, FiniteSets, TLC

VARIABLES fn, arg, ret, pc

vars == <<fn, arg, ret, pc>>

(***************************************************************************)
(* Bounds of the explored inputs.                                          *)
(***************************************************************************)
\* Largest number of two-character groups in a generated address body.
MaxGroups == 21
\* Largest length of a generated amount or fee string.
MaxAmountLen == 6

(***************************************************************************)
(* Program constants.                                                      *)
(***************************************************************************)
MAX_NUMBER_OF_ACCOUNTS == 16777216
MAX_NUMBER_OF_TOKENS == 128
\* len(bytes) != 20 in serializeAddress
AddressLen == 20

(***************************************************************************)
(* Characters and their byte values (ASCII), as Go strings hold them.      *)
(***************************************************************************)
Digits == <<"0","1","2","3","4","5","6","7","8","9">>
LowerLetters == <<"a","b","c","d","e","f","g","h","i","j","k","l","m",
                  "n","o","p","q","r","s","t","u","v","w","x","y","z">>
UpperLetters == <<"A","B","C","D","E","F","G","H","I","J","K","L","M",
                  "N","O","P","Q","R","S","T","U","V","W","X","Y","Z">>
Punctuation == [c \in {" ", "+", "-", ".", ":", "_"} |->
                  CASE c = " " -> 32 [] c = "+" -> 43 [] c = "-" -> 45
                    [] c = "." -> 46 [] c = ":" -> 58 [] c = "_" -> 95]

Range(s) == {s[i] : i \in DOMAIN s}

Alphabet == Range(Digits) \cup Range(LowerLetters) \cup Range(UpperLetters)
              \cup DOMAIN Punctuation

IndexIn(s, c) == CHOOSE i \in DOMAIN s : s[i] = c

CharCode == [c \in Alphabet |->
               IF c \in Range(Digits) THEN 47 + IndexIn(Digits, c)
               ELSE IF c \in Range(LowerLetters) THEN 96 + IndexIn(LowerLetters, c)
               ELSE IF c \in Range(UpperLetters) THEN 64 + IndexIn(UpperLetters, c)
               ELSE Punctuation[c]]

\* []byte(s): the bytes of the string
StringBytes(s) == [i \in 1..Len(s) |-> CharCode[s[i]]]

(***************************************************************************)
(* Results: (value, error) pairs, and the runtime panic.                   *)
(***************************************************************************)
Ok(v) == [status |-> "ok", val |-> v, err |-> ""]
Err(msg) == [status |-> "error", val |-> <<>>, err |-> msg]
Panic(msg) == [status |-> "panic", val |-> <<>>, err |-> msg]

ErrAccountId == "AccountId is too big"
ErrPrefix == "ETH address must start with '0x' and PubKeyHash must start with 'sync:'"
ErrSyntax == "invalid syntax"
\* the source appends the observed length, "len: %d"
ErrAddressLen == "Address must be 20 bytes long"
ErrTokenId == "TokenId is too big"
ErrNegativeTimestamp == "Negative timestamp"
ErrIndexOutOfRange == "index out of range"

(***************************************************************************)
(* uint64 arithmetic on limbs.                                             *)
(***************************************************************************)
\* A constant below 2^31 as a uint64.
ToU64(n) == <<0, 0, n \div 65536, n % 65536>>

\* a >= b on uint64
RECURSIVE U64GeFrom(_, _, _)
U64GeFrom(a, b, k) ==
  IF k > 4 THEN TRUE
  ELSE IF a[k] > b[k] THEN TRUE
  ELSE IF a[k] < b[k] THEN FALSE
  ELSE U64GeFrom(a, b, k + 1)

U64Ge(a, b) == U64GeFrom(a, b, 1)

\* ts < 0 on an int64: the sign bit
Int64Negative(ts) == ts[1] >= 32768

\* binary.BigEndian.PutUint64 into an 8-byte buffer
PutUint64(i) == <<i[1] \div 256, i[1] % 256, i[2] \div 256, i[2] % 256,
                  i[3] \div 256, i[3] % 256, i[4] \div 256, i[4] % 256>>

\* Mutant: the slice taken from the wrong end of the buffer, bytes[0 : size]
Uint2bytesHead(i, size) == SubSeq(PutUint64(i), 1, size)

\* Uint2bytes: bytes[8-size : 8]
Uint2bytes(i, size) == SubSeq(PutUint64(i), 8 - size + 1, 8)

\* Mutant: id > MAX_NUMBER_OF_ACCOUNTS in place of >=
serializeAccountIdOffByOne(id) ==
  IF U64Ge(id, ToU64(MAX_NUMBER_OF_ACCOUNTS + 1))
  THEN Err(ErrAccountId)
  ELSE Ok(Uint2bytes(id, 4))

serializeAccountId(id) ==
  IF U64Ge(id, ToU64(MAX_NUMBER_OF_ACCOUNTS))
  THEN Err(ErrAccountId)
  ELSE Ok(Uint2bytes(id, 4))

serializeTokenId(tokenId) ==
  IF U64Ge(tokenId, ToU64(MAX_NUMBER_OF_TOKENS))
  THEN Err(ErrTokenId)
  ELSE Ok(Uint2bytes(tokenId, 2))

serializeNonce(nonce) == Ok(Uint2bytes(nonce, 4))

\* Mutant: all 8 bytes of the value, no truncation to the low 4
serializeTimestampUntruncated(ts) ==
  IF Int64Negative(ts)
  THEN Err(ErrNegativeTimestamp)
  ELSE Ok(Uint2bytes(ts, 8))

\* append(make([]byte, 4), Uint2bytes(uint64(ts), 4)...)
serializeTimestamp(ts) ==
  IF Int64Negative(ts)
  THEN Err(ErrNegativeTimestamp)
  ELSE Ok(<<0, 0, 0, 0>> \o Uint2bytes(ts, 4))

(***************************************************************************)
(* strconv.ParseInt(s, 0, 64), as arrayifyAddress calls it.  The text is   *)
(* handled as bytes.  The range checks are left out: they need more digits *)
(* than the two arrayifyAddress passes.                                    *)
(***************************************************************************)
\* lower(c) = c | ('x' - 'X')
lower(c) == IF (c \div 32) % 2 = 0 THEN c + 32 ELSE c

\* The digit loop of ParseUint: underscores are skipped (base 0), a byte that
\* is no digit or letter, or a digit >= base, is a syntax error.
RECURSIVE ParseDigits(_, _, _, _)
ParseDigits(s, base, i, n) ==
  IF i > Len(s) THEN [n |-> n, err |-> ""]
  ELSE LET c == s[i] IN
    IF c = 95 THEN ParseDigits(s, base, i + 1, n)
    ELSE IF 48 <= c /\ c <= 57 THEN
      (IF c - 48 >= base THEN [n |-> 0, err |-> ErrSyntax]
       ELSE ParseDigits(s, base, i + 1, n * base + (c - 48)))
    ELSE IF 97 <= lower(c) /\ lower(c) <= 122 THEN
      (IF lower(c) - 97 + 10 >= base THEN [n |-> 0, err |-> ErrSyntax]
       ELSE ParseDigits(s, base, i + 1, n * base + (lower(c) - 97 + 10)))
    ELSE [n |-> 0, err |-> ErrSyntax]

\* Whether s (sign already removed) starts with a base prefix 0b, 0o or 0x.
HasBasePrefix(s) ==
  Len(s) >= 2 /\ s[1] = 48 /\ lower(s[2]) \in {98, 111, 120}

\* underscoreOK: an underscore must follow a digit or the base prefix and be
\* followed by a digit.  saw is "^", "0", "_" or "!".
RECURSIVE UnderscoreScan(_, _, _, _)
UnderscoreScan(s, hex, i, saw) ==
  IF i > Len(s) THEN saw # "_"
  ELSE LET c == s[i] IN
    IF (48 <= c /\ c <= 57) \/ (hex /\ 97 <= lower(c) /\ lower(c) <= 102)
    THEN UnderscoreScan(s, hex, i + 1, "0")
    ELSE IF c = 95 THEN
      (IF saw # "0" THEN FALSE ELSE UnderscoreScan(s, hex, i + 1, "_"))
    ELSE IF saw = "_" THEN FALSE
    ELSE UnderscoreScan(s, hex, i + 1, "!")

underscoreOK(s) ==
  LET t == IF Len(s) >= 1 /\ s[1] \in {43, 45} THEN Tail(s) ELSE s
  IN IF HasBasePrefix(t)
     THEN UnderscoreScan(t, lower(t[2]) = 120, 3, "0")
     ELSE UnderscoreScan(t, FALSE, 1, "^")

\* ParseUint(s, 0, 64) on bytes
ParseUint(s) ==
  IF Len(s) = 0 THEN [n |-> 0, err |-> ErrSyntax]
  ELSE
    LET pre == IF s[1] = 48 /\ Len(s) >= 3 /\ lower(s[2]) = 98 THEN <<2, 2>>
               ELSE IF s[1] = 48 /\ Len(s) >= 3 /\ lower(s[2]) = 111 THEN <<8, 2>>
               ELSE IF s[1] = 48 /\ Len(s) >= 3 /\ lower(s[2]) = 120 THEN <<16, 2>>
               ELSE IF s[1] = 48 THEN <<8, 1>>
               ELSE <<10, 0>>
        rest == SubSeq(s, pre[2] + 1, Len(s))
        r == ParseDigits(rest, pre[1], 1, 0)
        underscores == \E i \in DOMAIN rest : rest[i] = 95
    IN IF r.err # "" THEN r
       ELSE IF underscores /\ ~underscoreOK(s) THEN [n |-> 0, err |-> ErrSyntax]
       ELSE r

\* ParseInt(s, 0, 64) on a string
ParseInt(str) ==
  LET s == StringBytes(str) IN
  IF Len(s) = 0 THEN [n |-> 0, err |-> ErrSyntax]
  ELSE LET neg == s[1] = 45
           t == IF s[1] \in {43, 45} THEN Tail(s) ELSE s
           r == ParseUint(t)
       IN IF r.err # "" THEN r
          ELSE [n |-> IF neg THEN 0 - r.n ELSE r.n, err |-> ""]

(***************************************************************************)
(* Addresses.                                                              *)
(***************************************************************************)
HasPrefix(s, prefix) ==
  Len(s) >= Len(prefix) /\ SubSeq(s, 1, Len(prefix)) = prefix

Prefix0x == <<"0", "x">>
PrefixSync == <<"s", "y", "n", "c", ":">>

\* Mutant: address[4:] after "sync:", one character short
removeAddressPrefixShort(address) ==
  IF HasPrefix(address, Prefix0x) THEN Ok(SubSeq(address, 3, Len(address)))
  ELSE IF HasPrefix(address, PrefixSync) THEN Ok(SubSeq(address, 5, Len(address)))
  ELSE Err(ErrPrefix)

removeAddressPrefix(address) ==
  IF HasPrefix(address, Prefix0x) THEN Ok(SubSeq(address, 3, Len(address)))
  ELSE IF HasPrefix(address, PrefixSync) THEN Ok(SubSeq(address, 6, Len(address)))
  ELSE Err(ErrPrefix)

\* The loop of arrayifyAddress; string(address[i]) is the character itself
\* for the ASCII characters explored; i counts from 0 as in the source, so the
\* source's address[i] is address[i + 1] here.  Reading address[i+1] past the
\* end of the string is a runtime panic.
RECURSIVE arrayifyLoop(_, _, _)
arrayifyLoop(address, i, res) ==
  IF ~(i < Len(address)) THEN Ok(res)
  ELSE IF ~(i + 1 < Len(address)) THEN Panic(ErrIndexOutOfRange)
  ELSE LET s == <<"0", "x", address[i + 1], address[i + 2]>>
           p == ParseInt(s)
       IN IF p.err # "" THEN Err(p.err)
          ELSE arrayifyLoop(address, i + 2, Append(res, p.n % 256))

arrayifyAddress(address) == arrayifyLoop(address, 0, <<>>)

serializeAddress(address) ==
  LET prefixless == removeAddressPrefix(address) IN
  IF prefixless.status # "ok" THEN Err(prefixless.err)
  ELSE LET bytes == arrayifyAddress(prefixless.val) IN
    IF bytes.status # "ok" THEN bytes
    ELSE IF Len(bytes.val) # AddressLen THEN Err(ErrAddressLen)
    ELSE Ok(bytes.val)

(***************************************************************************)
(* Amount and fee: the source returns the bytes of the decimal string.     *)
(***************************************************************************)
serializeAmountPacked(amount) == Ok(StringBytes(amount))

serializeFeePacked(fee) == Ok(StringBytes(fee))

(***************************************************************************)
(* serializeTransfer.                                                      *)
(***************************************************************************)
\* type_ := make([]byte, 0, 5): length 0
type_ == <<>>

serializeTransfer(tx) ==
  LET accountId == serializeAccountId(tx.AccountId) IN
  IF accountId.status # "ok" THEN accountId ELSE
  LET from == serializeAddress(tx.From) IN
  IF from.status # "ok" THEN from ELSE
  LET to == serializeAddress(tx.To) IN
  IF to.status # "ok" THEN to ELSE
  LET token == serializeTokenId(tx.Token) IN
  IF token.status # "ok" THEN token ELSE
  LET amount == serializeAmountPacked(tx.Amount) IN
  IF amount.status # "ok" THEN amount ELSE
  LET fee == serializeFeePacked(tx.Fee) IN
  IF fee.status # "ok" THEN fee ELSE
  LET nonce == serializeNonce(tx.Nonce) IN
  IF nonce.status # "ok" THEN nonce ELSE
  LET validFrom == serializeTimestamp(tx.ValidFrom) IN
  IF validFrom.status # "ok" THEN validFrom ELSE
  LET validUntil == serializeTimestamp(tx.ValidUntil) IN
  IF validUntil.status # "ok" THEN validUntil ELSE
  Ok(type_ \o accountId.val \o from.val \o to.val \o token.val \o amount.val
       \o fee.val \o nonce.val \o validFrom.val \o validUntil.val)

(***************************************************************************)
(* The inputs explored.                                                    *)
(***************************************************************************)
LimbSamples == {0, 1, 127, 128, 255, 256, 32767, 32768, 65535}

\* uint64 and int64 arguments
U64Inputs == {<<a, b, c, d>> : a \in LimbSamples, b \in LimbSamples,
                               c \in LimbSamples, d \in LimbSamples}

\* n times the two characters c1 c2
Rep(c1, c2, n) == [i \in 1..(2 * n) |-> IF i % 2 = 1 THEN c1 ELSE c2]

LowerHex == Digits \o SubSeq(LowerLetters, 1, 6)
UpperHex == Digits \o SubSeq(UpperLetters, 1, 6)

\* The hex text of a byte sequence, two digits a byte, with the digits of hex
HexEncode(bytes, hex) ==
  [i \in 1..(2 * Len(bytes)) |->
     IF i % 2 = 1 THEN hex[(bytes[(i + 1) \div 2] \div 16) + 1]
     ELSE hex[(bytes[i \div 2] % 16) + 1]]

ByteStarts == {0, 1, 15, 16, 127, 128, 171, 254, 255}
ByteSteps == {0, 1, 7, 16, 17, 255}

\* 20-byte addresses: byte k is start + k*step (mod 256), and every byte
\* value repeated 20 times
AddressBytesSamples ==
  {[k \in 1..AddressLen |-> (start + k * step) % 256] :
     start \in ByteStarts, step \in ByteSteps}
  \cup {[k \in 1..AddressLen |-> b] : b \in 0..255}

BodyChars == {"0", "1", "9", "a", "f", "A", "F", "g", "_", "+", "-", " "}
TailChars == {"1", "g", "_"}
PrefixSamples == {Prefix0x, PrefixSync, <<>>, <<"0", "X">>}

\* from the source's example input
ExampleFrom == Prefix0x \o HexEncode(
  <<54, 97, 92, 243, 73, 215, 246, 52, 72, 145, 177, 231, 202, 124, 114, 136,
    63, 93, 192, 73>>, LowerHex)
ExampleTo == Prefix0x \o HexEncode(
  <<18, 52, 86, 120, 18, 52, 86, 120, 18, 52, 86, 120, 18, 52, 86, 120,
    18, 52, 86, 120>>, LowerHex)

\* A well-formed 40-digit body with group p replaced by c1 c2
OneGroupReplaced(p, c1, c2) ==
  LET body == HexEncode([k \in 1..AddressLen |-> (16 * k + k) % 256], LowerHex)
  IN [i \in 1..Len(body) |->
        IF i = 2 * p - 1 THEN c1 ELSE IF i = 2 * p THEN c2 ELSE body[i]]

AddressBodies ==
  {Rep(c1, c2, n) : c1 \in BodyChars, c2 \in BodyChars, n \in 0..MaxGroups}
  \cup {Rep(c1, c2, n) \o <<t>> :
          c1 \in {"1", "a", "_"}, c2 \in {"1", "F", "g"}, n \in 0..MaxGroups,
          t \in TailChars}
  \cup {HexEncode(b, hex) : b \in AddressBytesSamples, hex \in {LowerHex, UpperHex}}
  \cup {OneGroupReplaced(p, c1, c2) :
          p \in 1..AddressLen, c1 \in BodyChars, c2 \in BodyChars}

AddressInputs == {prefix \o body : prefix \in PrefixSamples, body \in AddressBodies}

AmountChars == {"0", "1", "9", "a", "-", ".", " "}
ExampleFee == <<"3","7","5","0","0","0","0","0","0","0","0","0","0","0">>

AmountInputs ==
  {[i \in 1..n |-> c] : c \in AmountChars, n \in 0..MaxAmountLen}
  \cup {[i \in 1..n |-> IF i = 1 THEN "1" ELSE c] : c \in AmountChars, n \in 1..MaxAmountLen}
  \cup {ExampleFee}

TxInputs ==
  [AccountId : {<<0, 0, 0, 1>>, <<0, 0, 256, 0>>},
   From : {ExampleFrom, <<"0", "x", "1">>, ExampleTo,
           PrefixSync \o Rep("_", "1", AddressLen)},
   To : {ExampleTo, SubSeq(ExampleTo, 3, Len(ExampleTo)),
         PrefixSync \o SubSeq(ExampleFrom, 3, Len(ExampleFrom))},
   Token : {<<0, 0, 0, 0>>, <<0, 0, 0, 128>>},
   Amount : {<<"0">>, <<"1", "2">>, <<"a", "b", "c">>},
   Fee : {ExampleFee, <<"1", ".", "5">>},
   Nonce : {<<0, 0, 0, 2>>, <<1, 0, 65535, 65535>>},
   ValidFrom : {<<0, 0, 0, 0>>, <<65535, 65535, 65535, 65535>>},
   ValidUntil : {<<0, 0, 0, 0>>, <<32768, 0, 0, 0>>, <<0, 1, 0, 5>>}]

ExampleTx ==
  [AccountId |-> <<0, 0, 0, 1>>, From |-> ExampleFrom, To |-> ExampleTo,
   Token |-> <<0, 0, 0, 0>>, Amount |-> <<"0">>, Fee |-> ExampleFee,
   Nonce |-> <<0, 0, 0, 2>>, ValidFrom |-> <<0, 0, 0, 0>>,
   ValidUntil |-> <<0, 0, 0, 0>>]

Calls ==
  ({"serializeAccountId", "serializeTokenId", "serializeNonce",
    "serializeTimestamp"} \X U64Inputs)
  \cup ({"serializeAddress"} \X AddressInputs)
  \cup ({"serializeAmountPacked", "serializeFeePacked"} \X AmountInputs)
  \cup ({"serializeTransfer"} \X TxInputs)

(***************************************************************************)
(* The state machine: a call is drawn, the function runs, the result is    *)
(* there.                                                                  *)
(***************************************************************************)
NoResult == [status |-> "none", val |-> <<>>, err |-> ""]

Init ==
  /\ \E c \in Calls : fn = c[1] /\ arg = c[2]
  /\ ret = NoResult
  /\ pc = "call"

SerializeAccountId ==
  /\ pc = "call"
  /\ fn = "serializeAccountId"
  /\ ret' = serializeAccountId(arg)
  /\ pc' = "done"
  /\ UNCHANGED <<fn, arg>>

SerializeAddress ==
  /\ pc = "call"
  /\ fn = "serializeAddress"
  /\ ret' = serializeAddress(arg)
  /\ pc' = "done"
  /\ UNCHANGED <<fn, arg>>

SerializeTokenId ==
  /\ pc = "call"
  /\ fn = "serializeTokenId"
  /\ ret' = serializeTokenId(arg)
  /\ pc' = "done"
  /\ UNCHANGED <<fn, arg>>

SerializeAmountPacked ==
  /\ pc = "call"
  /\ fn = "serializeAmountPacked"
  /\ ret' = serializeAmountPacked(arg)
  /\ pc' = "done"
  /\ UNCHANGED <<fn, arg>>

SerializeFeePacked ==
  /\ pc = "call"
  /\ fn = "serializeFeePacked"
  /\ ret' = serializeFeePacked(arg)
  /\ pc' = "done"
  /\ UNCHANGED <<fn, arg>>

SerializeNonce ==
  /\ pc = "call"
  /\ fn = "serializeNonce"
  /\ ret' = serializeNonce(arg)
  /\ pc' = "done"
  /\ UNCHANGED <<fn, arg>>

SerializeTimestamp ==
  /\ pc = "call"
  /\ fn = "serializeTimestamp"
  /\ ret' = serializeTimestamp(arg)
  /\ pc' = "done"
  /\ UNCHANGED <<fn, arg>>

SerializeTransfer ==
  /\ pc = "call"
  /\ fn = "serializeTransfer"
  /\ ret' = serializeTransfer(arg)
  /\ pc' = "done"
  /\ UNCHANGED <<fn, arg>>

Next ==
  \/ SerializeAccountId
  \/ SerializeAddress
  \/ SerializeTokenId
  \/ SerializeAmountPacked
  \/ SerializeFeePacked
  \/ SerializeNonce
  \/ SerializeTimestamp
  \/ SerializeTransfer

Spec == Init /\ [][Next]_vars

Done(f) == pc = "done" /\ fn = f

(***************************************************************************)
(* What the claims speak of, stated without the serializer.                *)
(***************************************************************************)
\* The documented error kind of a message of the source.
ErrKind(msg) ==
  CASE msg = ErrAccountId -> "AccountIdOutOfRange"
    [] msg = ErrPrefix -> "InvalidAddressFormat"
    [] msg = ErrSyntax -> "InvalidAddressFormat"
    [] msg = ErrAddressLen -> "InvalidAddressLength"
    [] msg = ErrTokenId -> "TokenIdOutOfRange"
    [] msg = ErrNegativeTimestamp -> "NegativeTimestamp"
    [] OTHER -> "none"

\* The uint64 v is below n, for n <= 2^31
ValueBelow(v, n) ==
  v[1] = 0 /\ v[2] = 0 /\ v[3] < 32768 /\ v[3] * 65536 + v[4] < n

IsBytes(s) == \A k \in DOMAIN s : s[k] \in 0..255

HexChars == Range(LowerHex) \cup Range(UpperHex)

ValidPrefixes == {Prefix0x, PrefixSync}

\* The text after the prefix
Body(address, prefix) == SubSeq(address, Len(prefix) + 1, Len(address))

IsDecimalInteger(s) == Len(s) >= 1 /\ \A i \in DOMAIN s : s[i] \in Range(Digits)

ValidAddress(address) ==
  \E prefix \in ValidPrefixes :
    /\ HasPrefix(address, prefix)
    /\ Len(Body(address, prefix)) = 40
    /\ \A i \in DOMAIN Body(address, prefix) : Body(address, prefix)[i] \in HexChars

\* The fields of a transaction in validation order, each with whether it is
\* valid and the error kinds its codec documents.
FieldChecks(tx) ==
  << [ok |-> ValueBelow(tx.AccountId, 2^24), kinds |-> {"AccountIdOutOfRange"}],
     [ok |-> ValidAddress(tx.From),
      kinds |-> {"InvalidAddressFormat", "InvalidAddressLength"}],
     [ok |-> ValidAddress(tx.To),
      kinds |-> {"InvalidAddressFormat", "InvalidAddressLength"}],
     [ok |-> ValueBelow(tx.Token, 128), kinds |-> {"TokenIdOutOfRange"}],
     [ok |-> IsDecimalInteger(tx.Amount),
      kinds |-> {"InvalidAmountFormat", "AmountNotPackable"}],
     [ok |-> IsDecimalInteger(tx.Fee),
      kinds |-> {"InvalidAmountFormat", "AmountNotPackable"}],
     [ok |-> TRUE, kinds |-> {}],
     [ok |-> tx.ValidFrom[1] < 32768, kinds |-> {"NegativeTimestamp"}],
     [ok |-> tx.ValidUntil[1] < 32768, kinds |-> {"NegativeTimestamp"}] >>

AnyInvalid(tx) == \E k \in 1..9 : ~FieldChecks(tx)[k].ok

FirstInvalid(tx) ==
  CHOOSE k \in 1..9 :
    ~FieldChecks(tx)[k].ok /\ \A j \in 1..(k - 1) : FieldChecks(tx)[j].ok

(***************************************************************************)
(* The claims.                                                             *)
(***************************************************************************)

\* C1: a successful serializeTransfer returns a 1-byte type tag followed by
\* the encoded accountId, from, to, token, amount, fee, nonce, validFrom and
\* validUntil, in this order; the first byte is the tag and the accountId is
\* in bytes 1..4.
C1_TypeTagThenFields ==
  (Done("serializeTransfer") /\ ret.status = "ok") =>
    \E tag \in 0..255 :
      ret.val = <<tag>> \o serializeAccountId(arg.AccountId).val
                  \o serializeAddress(arg.From).val
                  \o serializeAddress(arg.To).val
                  \o serializeTokenId(arg.Token).val
                  \o serializeAmountPacked(arg.Amount).val
                  \o serializeFeePacked(arg.Fee).val
                  \o serializeNonce(arg.Nonce).val
                  \o serializeTimestamp(arg.ValidFrom).val
                  \o serializeTimestamp(arg.ValidUntil).val

\* C2: every successful serializeTransfer returns the same number of bytes,
\* whatever the field values: the length of any output is the length of the
\* output for the source's example transaction.
C2_FixedLength ==
  (Done("serializeTransfer") /\ ret.status = "ok") =>
    Len(ret.val) = Len(serializeTransfer(ExampleTx).val)

\* C3: when a field of the transaction is invalid, serializeTransfer returns
\* the error of the earliest invalid field in the order accountId, from, to,
\* token, amount, fee, nonce, validFrom, validUntil, and no bytes.
C3_FirstInvalidFieldError ==
  (Done("serializeTransfer") /\ AnyInvalid(arg)) =>
    /\ ret.status = "error"
    /\ ret.val = <<>>
    /\ ErrKind(ret.err) \in FieldChecks(arg)[FirstInvalid(arg)].kinds

\* C4: the amount codec and the fee codec fail on a string that is not a
\* decimal integer, and succeed only on decimal integers.
C4_AmountRejectsNonDecimal ==
  ((Done("serializeAmountPacked") \/ Done("serializeFeePacked"))
      /\ ~IsDecimalInteger(arg)) =>
    ret.status = "error"

\* C5: on an address whose text after the prefix has an odd number of
\* characters, serializeAddress returns an address error and no bytes; it
\* neither aborts nor succeeds.
C5_OddLengthReturnsError ==
  \A prefix \in ValidPrefixes :
    (Done("serializeAddress") /\ HasPrefix(arg, prefix)
        /\ Len(Body(arg, prefix)) % 2 = 1) =>
      /\ ret.status = "error"
      /\ ret.val = <<>>
      /\ ErrKind(ret.err) \in {"InvalidAddressFormat", "InvalidAddressLength"}

\* C6: on an address with a valid prefix whose remaining text, taken in
\* 2-character groups, holds a character that is no hex digit, serializeAddress
\* fails with the address-format error.
C6_NonHexRejected ==
  \A prefix \in ValidPrefixes :
    (Done("serializeAddress") /\ HasPrefix(arg, prefix)
        /\ Len(Body(arg, prefix)) % 2 = 0
        /\ \E i \in DOMAIN Body(arg, prefix) : Body(arg, prefix)[i] \notin HexChars) =>
      /\ ret.status = "error"
      /\ ErrKind(ret.err) = "InvalidAddressFormat"

\* C7: serializeAddress on '0x' or 'sync:' followed by the 40-digit hex text
\* of 20 bytes succeeds and returns those 20 bytes in order: the hex text of
\* the returned bytes is the text that was passed.
C7_AddressRoundTrip ==
  \A prefix \in ValidPrefixes : \A hex \in {LowerHex, UpperHex} :
    (Done("serializeAddress") /\ HasPrefix(arg, prefix)
        /\ Len(Body(arg, prefix)) = 2 * AddressLen
        /\ \A i \in DOMAIN Body(arg, prefix) : Body(arg, prefix)[i] \in Range(hex)) =>
      /\ ret.status = "ok"
      /\ Len(ret.val) = AddressLen
      /\ IsBytes(ret.val)
      /\ HexEncode(ret.val, hex) = Body(arg, prefix)

C7_Witness ==
  /\ Done("serializeAddress")
  /\ HasPrefix(arg, PrefixSync)
  /\ Body(arg, PrefixSync) = HexEncode([k \in 1..AddressLen |-> (171 + k * 17) % 256], UpperHex)
  /\ ret.status = "ok"
  /\ ret.val[1] = 188 /\ ret.val[2] = 205

\* C8: serializeAccountId succeeds exactly when accountId < 2^24; it then
\* returns the 4 big-endian bytes of the value, the first one 0; otherwise it
\* returns the AccountIdOutOfRange error and no bytes.
C8_AccountIdEncoding ==
  Done("serializeAccountId") =>
    IF ValueBelow(arg, 2^24)
    THEN /\ ret.status = "ok"
         /\ Len(ret.val) = 4
         /\ IsBytes(ret.val)
         /\ ret.val[1] = 0
         /\ ret.val[2] * 65536 + ret.val[3] * 256 + ret.val[4] = arg[3] * 65536 + arg[4]
    ELSE /\ ret.status = "error"
         /\ ErrKind(ret.err) = "AccountIdOutOfRange"
         /\ ret.val = <<>>

C8_Witness ==
  /\ Done("serializeAccountId")
  /\ arg = <<0, 0, 255, 65535>>
  /\ ret = Ok(<<0, 255, 255, 255>>)

\* C9: serializeTimestamp fails with NegativeTimestamp on a negative value and
\* succeeds on every other; the result is 8 bytes, the first 4 zero, the last
\* 4 the big-endian bytes of the value modulo 2^32.
C9_TimestampEncoding ==
  Done("serializeTimestamp") =>
    IF arg[1] >= 32768
    THEN /\ ret.status = "error"
         /\ ErrKind(ret.err) = "NegativeTimestamp"
         /\ ret.val = <<>>
    ELSE /\ ret.status = "ok"
         /\ Len(ret.val) = 8
         /\ IsBytes(ret.val)
         /\ \A k \in 1..4 : ret.val[k] = 0
         /\ ret.val[5] * 256 + ret.val[6] = arg[3]
         /\ ret.val[7] * 256 + ret.val[8] = arg[4]

C9_Witness ==
  /\ Done("serializeTimestamp")
  /\ arg = <<1, 128, 256, 255>>
  /\ ret = Ok(<<0, 0, 0, 0, 1, 0, 0, 255>>)

\* C10: serializeTokenId succeeds exactly when token < 128; it then returns
\* the 2 big-endian bytes of the value; otherwise it returns the
\* TokenIdOutOfRange error and no bytes.
C10_TokenIdEncoding ==
  Done("serializeTokenId") =>
    IF ValueBelow(arg, 128)
    THEN /\ ret.status = "ok"
         /\ Len(ret.val) = 2
         /\ IsBytes(ret.val)
         /\ ret.val[1] * 256 + ret.val[2] = arg[4]
    ELSE /\ ret.status = "error"
         /\ ErrKind(ret.err) = "TokenIdOutOfRange"
         /\ ret.val = <<>>

C10_Witness ==
  /\ Done("serializeTokenId")
  /\ arg = <<0, 0, 0, 127>>
  /\ ret = Ok(<<0, 127>>)

====
